---- MODULE Spec2Model ----
(***************************************************************************)
(* A model of crates/circuit/src/dag_node.rs: the node classes of the DAG  *)
(* circuit (DAGNode, DAGOpNode, DAGInNode, DAGOutNode), their identity     *)
(* index, equality, hashing, pickling (__reduce__/__setstate__) and the    *)
(* mutators of an operation node.                                          *)
(*                                                                         *)
(* Python objects live in a heap (objs); a node holds references into it.  *)
(* f64 values are modelled as exact decimal fixed-point numbers in units   *)
(* of 10^-17, kept in two limbs (hi * 10^9 + lo) because TLC integers are  *)
(* 32 bits wide, plus the IEEE classes NaN and infinity.                   *)
(***************************************************************************)
EXTENDS Integers, Sequences, FiniteSets, TLC

VARIABLES
    nodes,          \* slot -> node object (kind "none": no object in the slot)
    objs,           \* the heap of Python operation objects, by address
    cache_pygates,  \* the build feature `cache_pygates`
    outcome,        \* how the last call ended: "ok", "ValueError", "TypeError", "panic"
    last,           \* the last call and its arguments / result
    deepdup,        \* <<n, dup>>: slot dup was deep-duplicated from slot n
    calls           \* the number of calls made so far

vars == <<nodes, objs, cache_pygates, outcome, last, deepdup, calls>>

----------------------------------------------------------------------------
(* Bounds of the model.                                                    *)

\* Largest graph index handed to a node.
MaxIndex == 1
\* Longest parameter list handed to set_params.
MaxParams == 1
\* Number of heap addresses for Python operation objects.
MaxObjs == 5
\* Number of calls in a run of Spec.
MaxCalls == 3

Slots == {1, 2}
Addrs == 1..MaxObjs

----------------------------------------------------------------------------
(* f64 values.                                                             *)

\* A finite f64 is its sign, its significand m and its exponent e: the
\* value is m * 2^e, m < 2^53, e >= -1074.  A natural number is the
\* sequence of its limbs of LimbBits bits, the lowest first, with no zero
\* limb at the top; zero is the empty sequence.
LimbBits == 15
LimbBase == 2^LimbBits
\* The significand of an f64 has 53 bits; the lowest exponent of a
\* significand bit is -1074, and values from 2^1024 on are infinite.
MantissaBits == 53
MinExpAbs == 1074
MaxExp == 1024

Fin(neg, m, e) == [cls |-> "fin", neg |-> neg, m |-> m, e |-> e]
NaN == [cls |-> "nan", neg |-> FALSE, m |-> <<>>, e |-> 0]
Inf == [cls |-> "inf", neg |-> FALSE, m |-> <<>>, e |-> 0]

F_0 == Fin(FALSE, <<>>, 0)
    \* 0.0
F_1em16 == Fin(FALSE, <<2492, 12209, 19146, 230>>, -106)
    \* 1e-16
F_3em16 == Fin(FALSE, <<26445, 25540, 30743, 172>>, -104)
    \* 3e-16
F_0p1 == Fin(FALSE, <<6554, 13107, 26214, 204>>, -56)
    \* 0.1
F_0p1_12 == Fin(FALSE, <<13076, 13109, 26214, 204>>, -56)
    \* 0.1 + 1e-12
F_0p1_11b == Fin(FALSE, <<6233, 13129, 26214, 204>>, -56)
    \* 0.10000000000999999, the f64 below 0.10000000001
F_0p1_11 == Fin(FALSE, <<6234, 13129, 26214, 204>>, -56)
    \* 0.1 + 1e-11 = 0.10000000001
F_0p1_11x == Fin(FALSE, <<6235, 13129, 26214, 204>>, -56)
    \* 0.10000000001000001, the f64 above 0.10000000001
F_0p1_8 == Fin(FALSE, <<14174, 2329, 26215, 204>>, -56)
    \* 0.1 + 1e-8
F_0p1001 == Fin(FALSE, <<24746, 9384, 157, 205>>, -56)
    \* 0.1001
F_m0p1 == Fin(TRUE, <<6554, 13107, 26214, 204>>, -56)
    \* -0.1
F_0p5 == Fin(FALSE, <<0, 0, 0, 128>>, -53)
    \* 0.5
F_0p5_13 == Fin(FALSE, <<901, 0, 0, 128>>, -53)
    \* 0.5000000000001

\* max_relative = 1e-10, as the f64 the literal denotes.
MaxRelative == Fin(FALSE, <<15803, 13231, 29567, 219>>, -86)
\* f64::EPSILON = 2^-52, the default absolute epsilon of relative_eq!.
Epsilon == Fin(FALSE, <<1>>, -52)

Max(a, b) == IF a >= b THEN a ELSE b
Limb(s, k) == IF k <= Len(s) THEN s[k] ELSE 0

RECURSIVE Norm(_)
Norm(s) ==
    IF Len(s) = 0 THEN <<>>
    ELSE IF s[Len(s)] = 0 THEN Norm(SubSeq(s, 1, Len(s) - 1))
    ELSE SubSeq(s, 1, Len(s))

\* -1, 0 or 1 as a < b, a = b or a > b.
BigCmp(a, b) ==
    IF Len(a) # Len(b) THEN (IF Len(a) < Len(b) THEN -1 ELSE 1)
    ELSE IF \A k \in 1..Len(a) : a[k] = b[k] THEN 0
    ELSE LET k == CHOOSE i \in 1..Len(a) :
                      a[i] # b[i] /\ \A j \in (i + 1)..Len(a) : a[j] = b[j]
         IN  IF a[k] < b[k] THEN -1 ELSE 1

BigAdd(a, b) ==
    LET n == Max(Len(a), Len(b))
        carry[k \in 0..n] ==
            IF k = 0 THEN 0 ELSE (Limb(a, k) + Limb(b, k) + carry[k - 1]) \div LimbBase
    IN  Norm([k \in 1..(n + 1) |->
                IF k <= n THEN (Limb(a, k) + Limb(b, k) + carry[k - 1]) % LimbBase
                ELSE carry[n]])

\* a - b, for b <= a.
BigSub(a, b) ==
    LET n == Len(a)
        borrow[k \in 0..n] ==
            IF k = 0 THEN 0
            ELSE IF Limb(a, k) - Limb(b, k) - borrow[k - 1] < 0 THEN 1 ELSE 0
    IN  Norm([k \in 1..n |->
                (Limb(a, k) - Limb(b, k) - borrow[k - 1] + LimbBase) % LimbBase])

\* a * x, for x < LimbBase.
BigMulSmall(a, x) ==
    LET n == Len(a)
        carry[k \in 0..n] ==
            IF k = 0 THEN 0 ELSE (a[k] * x + carry[k - 1]) \div LimbBase
    IN  Norm([k \in 1..(n + 1) |->
                IF k <= n THEN (a[k] * x + carry[k - 1]) % LimbBase ELSE carry[n]])

\* a * LimbBase^q
ShiftLimbs(a, q) == IF Len(a) = 0 THEN <<>> ELSE [k \in 1..q |-> 0] \o a

RECURSIVE BigMulFrom(_, _, _)
BigMulFrom(a, b, k) ==
    IF k > Len(b) THEN <<>>
    ELSE BigAdd(ShiftLimbs(BigMulSmall(a, b[k]), k - 1), BigMulFrom(a, b, k + 1))
BigMul(a, b) == BigMulFrom(a, b, 1)

\* a * 2^n
BigShl(a, n) == ShiftLimbs(BigMulSmall(a, 2^(n % LimbBits)), n \div LimbBits)

\* a \div 2^n
BigShr(a, n) ==
    LET q == n \div LimbBits
        r == n % LimbBits
        d == IF q >= Len(a) THEN <<>> ELSE SubSeq(a, q + 1, Len(a))
    IN  Norm([k \in 1..Len(d) |->
                (d[k] \div 2^r) + (Limb(d, k + 1) % 2^r) * 2^(LimbBits - r)])

\* The number of bits of a.
BitLen(a) ==
    IF Len(a) = 0 THEN 0
    ELSE LimbBits * (Len(a) - 1)
         + (CHOOSE n \in 1..LimbBits : 2^(n - 1) <= a[Len(a)] /\ a[Len(a)] < 2^n)

BigIsOdd(a) == Len(a) > 0 /\ a[1] % 2 = 1

\* The f64 nearest to m * 2^e, ties to the even significand: the result of
\* one f64 operation whose exact result is m * 2^e.
RoundF64(neg, m, e) ==
    LET s == Max(BitLen(m) - MantissaBits, (0 - MinExpAbs) - e)
        q == BigShr(m, s)
        rem == BigSub(m, BigShl(q, s))
        c == BigCmp(rem, BigShl(<<1>>, s - 1))
        r == IF c = 1 \/ (c = 0 /\ BigIsOdd(q)) THEN BigAdd(q, <<1>>) ELSE q
    IN  IF Len(m) = 0 THEN Fin(neg, <<>>, 0)
        ELSE IF s <= 0
        THEN (IF BitLen(m) + e > MaxExp THEN [Inf EXCEPT !.neg = neg] ELSE Fin(neg, m, e))
        ELSE IF BitLen(r) + e + s > MaxExp THEN [Inf EXCEPT !.neg = neg]
        ELSE Fin(neg, r, IF Len(r) = 0 THEN 0 ELSE e + s)

\* The magnitude of a finite f64, and magnitudes brought to one exponent.
Mag(x) == [m |-> x.m, e |-> x.e]
IsZero(x) == Len(x.m) = 0
AlignedTo(a, e) == IF Len(a.m) = 0 THEN <<>> ELSE BigShl(a.m, a.e - e)
\* The lower exponent of two magnitudes, zero having none.
MinE(a, b) ==
    IF Len(a.m) = 0 THEN b.e
    ELSE IF Len(b.m) = 0 THEN a.e
    ELSE IF a.e <= b.e THEN a.e ELSE b.e
\* The exponent above the top bit of a magnitude that is not zero.
Top(x) == x.e + BitLen(x.m)
\* -1, 0 or 1 as a < b, a = b or a > b: by the top bits where they differ.
MagCmp(a, b) ==
    IF Len(a.m) = 0 \/ Len(b.m) = 0
    THEN (IF Len(a.m) = Len(b.m) THEN 0 ELSE IF Len(a.m) = 0 THEN -1 ELSE 1)
    ELSE IF Top(a) # Top(b) THEN (IF Top(a) < Top(b) THEN -1 ELSE 1)
    ELSE BigCmp(AlignedTo(a, MinE(a, b)), AlignedTo(b, MinE(a, b)))
MagLeq(a, b) == MagCmp(a, b) <= 0
MagEq(a, b) == MagCmp(a, b) = 0
\* a - b for magnitudes with b <= a, and a + b: the exact results.
MagSub(a, b) ==
    [m |-> BigSub(AlignedTo(a, MinE(a, b)), AlignedTo(b, MinE(a, b))), e |-> MinE(a, b)]
MagAdd(a, b) ==
    [m |-> BigAdd(AlignedTo(a, MinE(a, b)), AlignedTo(b, MinE(a, b))), e |-> MinE(a, b)]

\* x <= y for two f64 that are finite or infinite, and not negative.
F64Leq(x, y) ==
    CASE x.cls = "inf" -> y.cls = "inf"
      [] y.cls = "inf" -> TRUE
      [] OTHER -> MagLeq(Mag(x), Mag(y))

\* IEEE equality of two f64: NaN equals nothing, +0 = -0.
F64Eq(a, b) ==
    CASE a.cls = "nan" \/ b.cls = "nan" -> FALSE
      [] a.cls = "inf" \/ b.cls = "inf" -> a.cls = b.cls /\ a.neg = b.neg
      [] OTHER -> MagEq(Mag(a), Mag(b)) /\ (a.neg = b.neg \/ IsZero(a))

\* A magnitude far below the last bit that a result next to hi can keep
\* decides the rounding by being there, not by its size: it stands for
\* every lo under it.
Sticky(hi) == [m |-> <<1>>, e |-> Top(hi) - 2 * MantissaBits - 5]

\* (a - b).abs() of two finite f64: the exact difference, rounded to f64.
AbsDiff(a, b) ==
    LET hi == IF MagLeq(Mag(b), Mag(a)) THEN Mag(a) ELSE Mag(b)
        lo == IF MagLeq(Mag(b), Mag(a)) THEN Mag(b) ELSE Mag(a)
        low == IF Len(lo.m) # 0 /\ Top(lo) < Sticky(hi).e THEN Sticky(hi) ELSE lo
        d == IF a.neg = b.neg THEN MagSub(hi, low) ELSE MagAdd(hi, low)
    IN  RoundF64(FALSE, d.m, d.e)

\* largest * max_relative: the exact product, rounded to f64.
TimesMaxRelative(largest) ==
    RoundF64(FALSE, BigMul(largest.m, MaxRelative.m), largest.e + MaxRelative.e)

\* The larger of |a| and |b|, as relative_eq picks it.
Largest(a, b) == IF MagCmp(Mag(b), Mag(a)) = 1 THEN Mag(b) ELSE Mag(a)

\* A mutant of RelativeEq: the relative test alone, without the absolute
\* epsilon that relative_eq! applies first.
RelativeEqNoEpsilon(a, b) ==
    IF F64Eq(a, b) THEN TRUE
    ELSE IF a.cls # "fin" \/ b.cls # "fin" THEN FALSE
    ELSE F64Leq(AbsDiff(a, b), TimesMaxRelative(Largest(a, b)))

\* approx::relative_eq!(a, b, max_relative = 1e-10): equal values are equal;
\* an infinity is equal to nothing else; NaN makes every comparison false;
\* then |a - b| <= EPSILON, or |a - b| <= max(|a|, |b|) * max_relative, each
\* operation being an f64 operation.
RelativeEq(a, b) ==
    IF F64Eq(a, b) THEN TRUE
    ELSE IF a.cls = "inf" \/ b.cls = "inf" THEN FALSE
    ELSE IF a.cls = "nan" \/ b.cls = "nan" THEN FALSE
    ELSE LET abs_diff == AbsDiff(a, b)
             largest == Largest(a, b)
         IN  \/ F64Leq(abs_diff, Epsilon)
             \/ F64Leq(abs_diff, TimesMaxRelative(largest))

----------------------------------------------------------------------------
(* Parameters, labels, indices.                                            *)

\* operations::Param: Float(f64), ParameterExpression(PyObject), Obj(PyObject).
ParamFloat(x) == [k |-> "Float", f |-> x, v |-> ""]
ParamExpr(s) == [k |-> "ParameterExpression", f |-> F_0, v |-> s]
ParamObj(s) == [k |-> "Obj", f |-> F_0, v |-> s]

\* Option<String> / Option<Box<String>>.
NoLabel == [some |-> FALSE, s |-> ""]
Label(s) == [some |-> TRUE, s |-> s]

\* Option<NodeIndex>.
None == [some |-> FALSE, idx |-> 0]
Some(i) == [some |-> TRUE, idx |-> i]

\* DAGNode::py_nid: the raw index, -1 for a detached node.
py_nid(n) == IF n.node.some THEN n.node.idx ELSE -1

----------------------------------------------------------------------------
(* The heap of Python operation objects and the operation descriptor.      *)

OpKinds == {"Gate", "Instruction", "Operation",
            "StandardGate", "StandardInstruction", "Unitary"}
PyKinds == {"Gate", "Instruction", "Operation"}

\* A heap cell: cls "free" is an unused address, cls "NotOp" a Python object
\* that is no operation; std is the standard gate / instruction of a
\* standard class, or the matrix of a unitary gate.
FreeCell == [cls |-> "free", name |-> "", params |-> <<>>, label |-> NoLabel, std |-> ""]
PyObj(cls, name, params, label, std) ==
    [cls |-> cls, name |-> name, params |-> params, label |-> label, std |-> std]

\* The operation descriptor held by an instruction (PackedOperation): a
\* standard gate or instruction by value, a unitary by its matrix, or a
\* Python object by reference together with the name read from it when it
\* was extracted (PyGate::op_name and its like).
StdOp(kind, std) == [kind |-> kind, std |-> std, op_name |-> "", ref |-> 0]
PyOp(kind, ref, name) == [kind |-> kind, std |-> "", op_name |-> name, ref |-> ref]
NoOp == [kind |-> "none", std |-> "", op_name |-> "", ref |-> 0]

\* Operation::name(), read without the interpreter (get_name returns &str).
OpName(op) ==
    CASE op.kind \in {"StandardGate", "StandardInstruction"} -> op.std
      [] op.kind = "Unitary" -> "unitary"
      [] OTHER -> op.op_name

\* PackedOperation::try_standard_gate().is_some()
IsStandardGate(op) == op.kind = "StandardGate"

\* op.extract::<OperationFromPython>() of an object ob at address o: shape
\* validation of a Python object and the operation, parameters and label
\* derived from it.
ExtractFrom(ob, o) ==
    IF ob.cls \notin OpKinds
    THEN [ok |-> FALSE, operation |-> NoOp, params |-> <<>>, label |-> NoLabel]
    ELSE [ok |-> TRUE,
          operation |-> IF ob.cls \in PyKinds THEN PyOp(ob.cls, o, ob.name)
                        ELSE StdOp(ob.cls, ob.std),
          params |-> ob.params,
          label |-> ob.label]

Extract(h, o) == ExtractFrom(h[o], o)

\* Python == of two operation objects: the same object, or objects of the
\* same class with the same name, parameters and label.
PyObjEq(h, a, b) ==
    a = b \/ (h[a].cls = h[b].cls /\ h[a].name = h[b].name
              /\ h[a].params = h[b].params /\ h[a].label = h[b].label)

\* PackedOperation::py_eq: descriptors of different kinds are unequal;
\* standard ones compare by value, Python ones by the objects' own ==.
py_eq(h, a, b) ==
    IF a.kind # b.kind THEN FALSE
    ELSE IF a.kind \in PyKinds THEN PyObjEq(h, a.ref, b.ref)
    ELSE a.std = b.std

\* The first free address of the heap, 0 when it is full.
FreeAddr(h) ==
    IF \E a \in Addrs : h[a].cls = "free"
    THEN CHOOSE a \in Addrs : h[a].cls = "free" /\ \A b \in Addrs : b < a => h[b].cls # "free"
    ELSE 0

----------------------------------------------------------------------------
(* Nodes.                                                                  *)

NoInstr == [operation |-> NoOp, qubits |-> <<>>, clbits |-> <<>>,
            params |-> <<>>, label |-> NoLabel, py_op |-> 0]
EmptySlot == [kind |-> "none", node |-> None, instruction |-> NoInstr, wire |-> ""]

\* struct DAGNode { node }
DAGNode(node) == [kind |-> "node", node |-> node, instruction |-> NoInstr, wire |-> ""]
\* struct DAGOpNode { instruction } extends DAGNode
DAGOpNode(instruction, node) ==
    [kind |-> "op", node |-> node, instruction |-> instruction, wire |-> ""]
\* struct DAGInNode { wire } extends DAGNode
DAGInNode(wire, node) == [kind |-> "in", node |-> node, instruction |-> NoInstr, wire |-> wire]
\* struct DAGOutNode { wire } extends DAGNode
DAGOutNode(wire, node) == [kind |-> "out", node |-> node, instruction |-> NoInstr, wire |-> wire]

----------------------------------------------------------------------------
(* Equality and hashing.                                                   *)

Min(a, b) == IF a <= b THEN a ELSE b

\* Python == of two symbolic expressions, opaque parameter objects, wires
\* or bits: the objects' own equality, here equality of what they denote.
PyValueEq(a, b) == a = b

\* One step of the parameter loop of DAGOpNode::__eq__: the match on [a, b].
ParamPairEq(a, b) ==
    CASE a.k = "Float" /\ b.k = "Float" -> RelativeEq(a.f, b.f)
      [] a.k = "ParameterExpression" /\ b.k = "ParameterExpression" -> PyValueEq(a.v, b.v)
      [] a.k = "Obj" /\ b.k = "Obj" -> PyValueEq(a.v, b.v)
      [] OTHER -> FALSE

\* The parameter loop: zip() pairs the two lists and stops at the shorter.
ZipParamsEq(pa, pb) ==
    \A k \in 1..Min(Len(pa), Len(pb)) : ParamPairEq(pa[k], pb[k])

\* A mutant of DAGOpNode__eq__: the classical targets are not compared.
DAGOpNode__eq__NoClbits(h, slf, other) ==
    /\ other.kind = "op"
    /\ py_nid(slf) = py_nid(other)
    /\ py_eq(h, slf.instruction.operation, other.instruction.operation)
    /\ (IsStandardGate(slf.instruction.operation)
          => ZipParamsEq(slf.instruction.params, other.instruction.params))
    /\ PyValueEq(slf.instruction.qubits, other.instruction.qubits)

\* DAGOpNode::__eq__
DAGOpNode__eq__(h, slf, other) ==
    IF other.kind # "op" THEN FALSE
    ELSE IF py_nid(slf) # py_nid(other) THEN FALSE
    ELSE IF ~py_eq(h, slf.instruction.operation, other.instruction.operation) THEN FALSE
    ELSE LET params_eq ==
                 IF IsStandardGate(slf.instruction.operation)
                 THEN ZipParamsEq(slf.instruction.params, other.instruction.params)
                 ELSE TRUE
         IN  /\ params_eq
             /\ PyValueEq(slf.instruction.qubits, other.instruction.qubits)
             /\ PyValueEq(slf.instruction.clbits, other.instruction.clbits)

\* A mutant of DAGInNode__eq__: the downcast to Self is dropped, so any
\* boundary node with the same index and wire is equal.
DAGInNode__eq__NoDowncast(slf, other) ==
    /\ other.kind \in {"in", "out"}
    /\ py_nid(slf) = py_nid(other)
    /\ PyValueEq(slf.wire, other.wire)

\* DAGInNode::__eq__
DAGInNode__eq__(slf, other) ==
    IF other.kind = "in"
    THEN py_nid(slf) = py_nid(other) /\ PyValueEq(slf.wire, other.wire)
    ELSE FALSE

\* DAGOutNode::__eq__
DAGOutNode__eq__(slf, other) ==
    IF other.kind = "out"
    THEN py_nid(slf) = py_nid(other) /\ PyValueEq(slf.wire, other.wire)
    ELSE FALSE

\* The __eq__ of a node's own class.
NodeEqMethod(h, slf, other) ==
    CASE slf.kind = "op" -> DAGOpNode__eq__(h, slf, other)
      [] slf.kind = "in" -> DAGInNode__eq__(slf, other)
      [] slf.kind = "out" -> DAGOutNode__eq__(slf, other)
      [] OTHER -> FALSE

\* Python's a == b for the objects in slots i and j.  DAGNode defines no
\* __eq__: two bare nodes are equal when they are the same object, and
\* against an instance of a subclass the subclass's reflected __eq__ runs.
PyEq(h, ns, i, j) ==
    IF ns[i].kind = "node"
    THEN IF ns[j].kind = "node" THEN i = j ELSE NodeEqMethod(h, ns[j], ns[i])
    ELSE NodeEqMethod(h, ns[i], ns[j])

\* AHasher fed by write_isize / write: the digest is a function of the
\* sequence of writes, and distinct sequences give distinct digests.
AHash(writes) == <<"ahash", writes>>

\* Python hash() of a wire object.
WireHash(w) == <<"pyhash", w>>

\* DAGNode::__hash__
DAGNode__hash__(n) == <<"pyhash", py_nid(n)>>
\* DAGOpNode::__hash__
DAGOpNode__hash__(n) == AHash(<<py_nid(n), OpName(n.instruction.operation)>>)
\* DAGInNode::__hash__
DAGInNode__hash__(n) == AHash(<<py_nid(n), WireHash(n.wire)>>)
\* DAGOutNode::__hash__
DAGOutNode__hash__(n) == AHash(<<py_nid(n), WireHash(n.wire)>>)

PyHash(n) ==
    CASE n.kind = "op" -> DAGOpNode__hash__(n)
      [] n.kind = "in" -> DAGInNode__hash__(n)
      [] n.kind = "out" -> DAGOutNode__hash__(n)
      [] OTHER -> DAGNode__hash__(n)

----------------------------------------------------------------------------
(* The record of the last call.                                            *)

Call(op, i, j, res) == [op |-> op, i |-> i, j |-> j, res |-> res]
NoCall == Call("none", 0, 0, FALSE)

\* A call that fails leaves every object as it was.
Fails(op, i, j, how) ==
    /\ outcome' = how
    /\ last' = Call(op, i, j, FALSE)
    /\ UNCHANGED <<nodes, objs, cache_pygates, deepdup>>

\* The duplication pairs that do not involve slot i.
Without(i) == {p \in deepdup : p[1] # i /\ p[2] # i}

\* A call that succeeds and changes only the node in slot i.
SetsNode(op, i, j, n) ==
    /\ nodes' = [nodes EXCEPT ![i] = n]
    /\ outcome' = "ok"
    /\ last' = Call(op, i, j, FALSE)
    /\ UNCHANGED <<objs, cache_pygates, deepdup>>

\* The same, for the index setter: the record of the call keeps the index
\* the node had before.
SetsIndex(op, i, j, n) ==
    /\ nodes' = [nodes EXCEPT ![i] = n]
    /\ outcome' = "ok"
    /\ last' = Call(op, i, j, nodes[i].node)
    /\ UNCHANGED <<objs, cache_pygates, deepdup>>

\* The slot a new node object is put in: the first empty one.
IsFreeSlot(i) ==
    /\ nodes[i].kind = "none"
    /\ \A k \in Slots : k < i => nodes[k].kind # "none"

\* A constructor call that puts a new object n in slot i.
NewNode(op, i, j, n) ==
    /\ IsFreeSlot(i)
    /\ nodes' = [nodes EXCEPT ![i] = n]
    /\ outcome' = "ok"
    /\ last' = Call(op, i, j, FALSE)
    /\ deepdup' = Without(i)
    /\ UNCHANGED <<objs, cache_pygates>>

----------------------------------------------------------------------------
(* Node identity: DAGNode.                                                 *)

\* The match of DAGNode::py_new on the raw index: -1 is detached, another
\* negative value fails the conversion to usize.
NodeFromNid(nid) ==
    IF nid = -1 THEN [ok |-> TRUE, node |-> None]
    ELSE IF nid < 0 THEN [ok |-> FALSE, node |-> None]
    ELSE [ok |-> TRUE, node |-> Some(nid)]

\* DAGNode::py_new(nid): a conversion failure is returned as a ValueError.
DAGNode_py_new(i, nid) ==
    LET r == NodeFromNid(nid) IN
    IF r.ok THEN NewNode("DAGNode", i, nid, DAGNode(r.node))
    ELSE Fails("DAGNode", i, nid, "ValueError")

\* A mutant of set_py_node_id: an attached node keeps its index.
set_py_node_id_Once(i, nid) ==
    /\ nodes[i].kind # "none"
    /\ IF nid < -1 THEN Fails("set_node_id", i, nid, "panic")
       ELSE IF nodes[i].node.some
       THEN SetsIndex("set_node_id", i, nid, nodes[i])
       ELSE SetsIndex("set_node_id", i, nid,
                     [nodes[i] EXCEPT !.node = IF nid = -1 THEN None ELSE Some(nid)])

\* DAGNode::set_py_node_id (the _node_id setter): try_into().unwrap()
\* panics on a negative index other than -1, before the field is assigned.
set_py_node_id(i, nid) ==
    /\ nodes[i].kind # "none"
    /\ IF nid = -1 THEN SetsIndex("set_node_id", i, nid, [nodes[i] EXCEPT !.node = None])
       ELSE IF nid < 0 THEN Fails("set_node_id", i, nid, "panic")
       ELSE SetsIndex("set_node_id", i, nid, [nodes[i] EXCEPT !.node = Some(nid)])

\* __setstate__(index) of DAGNode and of its three subclasses: the index is
\* stored as given.
setstate(i, index) ==
    /\ nodes[i].kind # "none"
    /\ SetsNode("setstate", i, 0, [nodes[i] EXCEPT !.node = index])

\* DAGNode::__lt__ and DAGNode::__gt__
DAGNode__lt__(slf, other) == py_nid(slf) < py_nid(other)
DAGNode__gt__(slf, other) == py_nid(slf) > py_nid(other)

----------------------------------------------------------------------------
(* Boundary nodes.                                                         *)

\* DAGInNode::py_new(wire)
DAGInNode_py_new(i, wire) == NewNode("DAGInNode", i, 0, DAGInNode(wire, None))
\* DAGOutNode::py_new(wire)
DAGOutNode_py_new(i, wire) == NewNode("DAGOutNode", i, 0, DAGOutNode(wire, None))
\* DAGInNode::new(node, wire), the graph engine's constructor.
DAGInNode_new(i, idx, wire) == NewNode("DAGInNode::new", i, 0, DAGInNode(wire, Some(idx)))
\* DAGOutNode::new(node, wire)
DAGOutNode_new(i, idx, wire) == NewNode("DAGOutNode::new", i, 0, DAGOutNode(wire, Some(idx)))

----------------------------------------------------------------------------
(* Operation nodes: the Python view of the operation.                      *)

\* The Python object that create_py_op builds for a descriptor held by
\* value, from the instruction's parameters and label.
Materialized(ins) ==
    PyObj(ins.operation.kind, OpName(ins.operation),
          IF ins.operation.kind = "Unitary" THEN <<>> ELSE ins.params,
          ins.label, ins.operation.std)

\* CircuitInstruction::get_operation: the cached object when the cache is
\* filled; otherwise the referenced Python object, or a newly built one for
\* a descriptor held by value; with cache_pygates the result fills the
\* cache.  addr = 0: the object is held by nobody but the caller.
get_operation(h, ins, cache) ==
    IF cache /\ ins.py_op # 0
    THEN [ok |-> TRUE, h |-> h, ins |-> ins, addr |-> ins.py_op, obj |-> h[ins.py_op]]
    ELSE IF ins.operation.kind \in PyKinds
    THEN [ok |-> TRUE, h |-> h,
          ins |-> IF cache THEN [ins EXCEPT !.py_op = ins.operation.ref] ELSE ins,
          addr |-> ins.operation.ref, obj |-> h[ins.operation.ref]]
    ELSE IF ~cache
    THEN [ok |-> TRUE, h |-> h, ins |-> ins, addr |-> 0, obj |-> Materialized(ins)]
    ELSE LET a == FreeAddr(h) IN
         IF a = 0
         THEN [ok |-> FALSE, h |-> h, ins |-> ins, addr |-> 0, obj |-> FreeCell]
         ELSE [ok |-> TRUE, h |-> [h EXCEPT ![a] = Materialized(ins)],
               ins |-> [ins EXCEPT !.py_op = a], addr |-> a, obj |-> Materialized(ins)]

\* The CircuitInstruction built by DAGOpNode::py_new from a valid operation
\* object and the two target tuples.
NewOpInstruction(ob, o, qargs, cargs, cache) ==
    LET py_op == ExtractFrom(ob, o) IN
    [operation |-> py_op.operation, qubits |-> qargs, clbits |-> cargs,
     params |-> py_op.params, label |-> py_op.label,
     py_op |-> IF cache THEN o ELSE 0]

\* DAGOpNode::py_new(op, qargs, cargs): a detached operation node, or the
\* error of the failed extraction.  Omitted targets are the empty tuple.
DAGOpNode_py_new(i, o, qargs, cargs) ==
    /\ objs[o].cls # "free"
    /\ IF ~Extract(objs, o).ok THEN Fails("DAGOpNode", i, o, "TypeError")
       ELSE NewNode("DAGOpNode", i, o,
                    DAGOpNode(NewOpInstruction(objs[o], o, qargs, cargs, cache_pygates), None))

----------------------------------------------------------------------------
(* Operation nodes: mutators.                                              *)

\* A mutant of set_op: the label of the old descriptor is kept.
set_op_KeepLabel(i, o) ==
    /\ nodes[i].kind = "op"
    /\ objs[o].cls # "free"
    /\ LET res == Extract(objs, o) IN
       IF ~res.ok THEN Fails("set_op", i, o, "TypeError")
       ELSE /\ nodes' = [nodes EXCEPT ![i].instruction =
                   [@ EXCEPT !.operation = res.operation, !.params = res.params,
                             !.py_op = IF cache_pygates THEN o ELSE 0]]
            /\ outcome' = "ok"
            /\ last' = Call("set_op", i, o, nodes[i])
            /\ deepdup' = Without(i)
            /\ UNCHANGED <<objs, cache_pygates>>

\* DAGOpNode::set_op (the op setter): the extraction runs first and its
\* error is returned before anything is assigned.
set_op(i, o) ==
    /\ nodes[i].kind = "op"
    /\ objs[o].cls # "free"
    /\ LET res == Extract(objs, o) IN
       IF ~res.ok THEN Fails("set_op", i, o, "TypeError")
       ELSE /\ nodes' = [nodes EXCEPT ![i].instruction =
                   [@ EXCEPT !.operation = res.operation, !.params = res.params,
                             !.label = res.label,
                             !.py_op = IF cache_pygates THEN o ELSE 0]]
            /\ outcome' = "ok"
            /\ last' = Call("set_op", i, o, nodes[i])
            /\ deepdup' = Without(i)
            /\ UNCHANGED <<objs, cache_pygates>>

\* DAGOpNode::set_qargs
set_qargs(i, qargs) ==
    /\ nodes[i].kind = "op"
    /\ SetsNode("set_qargs", i, 0, [nodes[i] EXCEPT !.instruction.qubits = qargs])

\* DAGOpNode::set_cargs
set_cargs(i, cargs) ==
    /\ nodes[i].kind = "op"
    /\ SetsNode("set_cargs", i, 0, [nodes[i] EXCEPT !.instruction.clbits = cargs])

\* DAGOpNode::set_params
set_params(i, val) ==
    /\ nodes[i].kind = "op"
    /\ SetsNode("set_params", i, 0, [nodes[i] EXCEPT !.instruction.params = val])

\* DAGOpNode::set_label
set_label(i, val) ==
    /\ nodes[i].kind = "op"
    /\ SetsNode("set_label", i, 0, [nodes[i] EXCEPT !.instruction.label = val])

\* The heap after the Python object of an instruction got a new name; an
\* object held by nobody (addr 0) leaves the heap as it is.
Renamed(g, new_name) ==
    IF g.addr = 0 THEN g.h ELSE [g.h EXCEPT ![g.addr].name = new_name]

\* DAGOpNode::set_name (the name setter): the name is set on the Python
\* object of the operation, and the descriptor is extracted again from it.
set_name(i, new_name) ==
    /\ nodes[i].kind = "op"
    /\ LET g == get_operation(objs, nodes[i].instruction, cache_pygates)
           ob == [g.obj EXCEPT !.name = new_name]
       IN  /\ g.ok
           /\ objs' = Renamed(g, new_name)
           /\ nodes' = [nodes EXCEPT ![i].instruction =
                            [g.ins EXCEPT !.operation = ExtractFrom(ob, g.addr).operation]]
    /\ outcome' = "ok"
    /\ last' = Call("set_name", i, 0, FALSE)
    /\ UNCHANGED <<cache_pygates, deepdup>>

\* DAGOpNode::get_op (the op getter).
get_op(i) ==
    /\ nodes[i].kind = "op"
    /\ LET g == get_operation(objs, nodes[i].instruction, cache_pygates)
       IN  /\ g.ok
           /\ objs' = g.h
           /\ nodes' = [nodes EXCEPT ![i].instruction = g.ins]
           /\ last' = Call("get_op", i, g.addr, FALSE)
    /\ outcome' = "ok"
    /\ UNCHANGED <<cache_pygates, deepdup>>

\* The caller's `node.op.name = new_name`: get_op, then the attribute is set
\* on the object it returned, in place.
op_setattr_name(i, new_name) ==
    /\ nodes[i].kind = "op"
    /\ LET g == get_operation(objs, nodes[i].instruction, cache_pygates)
       IN  /\ g.ok
           /\ objs' = Renamed(g, new_name)
           /\ nodes' = [nodes EXCEPT ![i].instruction = g.ins]
    /\ outcome' = "ok"
    /\ last' = Call("op_setattr_name", i, 0, FALSE)
    /\ UNCHANGED <<cache_pygates, deepdup>>

----------------------------------------------------------------------------
(* Operation nodes: duplication.                                           *)

\* py_deepcopy of a Python operation: a new object with the same content;
\* the descriptor keeps the name it held.
PyDeepCopy(h, op) ==
    LET a == FreeAddr(h) IN
    IF a = 0 THEN [ok |-> FALSE, h |-> h, operation |-> op]
    ELSE [ok |-> TRUE, h |-> [h EXCEPT ![a] = h[op.ref]],
          operation |-> PyOp(op.kind, a, op.op_name)]

\* A mutant of DeepCopyOperation: the Python object is shared, not copied.
DeepCopyOperationShared(h, op) == [ok |-> TRUE, h |-> h, operation |-> op]

\* The match on operation.view() under `if deepcopy`: a Python gate,
\* instruction or operation is deep-copied; a standard gate or instruction
\* and a unitary are values and are copied as such.
DeepCopyOperation(h, op) ==
    IF op.kind \in PyKinds THEN PyDeepCopy(h, op)
    ELSE [ok |-> TRUE, h |-> h, operation |-> op]

\* DAGOpNode::_to_circuit_instruction(deepcopy): a new CircuitInstruction
\* with an empty py_op cache.
to_circuit_instruction(h, ins, deepcopy) ==
    LET d == IF deepcopy THEN DeepCopyOperation(h, ins.operation)
             ELSE [ok |-> TRUE, h |-> h, operation |-> ins.operation]
    IN  [ok |-> d.ok, h |-> d.h,
         ins |-> [ins EXCEPT !.operation = d.operation, !.py_op = 0]]

\* DAGOpNode::from_instruction(instruction, deepcopy): a detached node
\* holding the instruction; a deep copy also empties the py_op cache.
from_instruction(h, ins, deepcopy) ==
    LET d == IF deepcopy THEN DeepCopyOperation(h, ins.operation)
             ELSE [ok |-> TRUE, h |-> h, operation |-> ins.operation]
    IN  [ok |-> d.ok, h |-> d.h,
         node |-> DAGOpNode(IF deepcopy
                            THEN [ins EXCEPT !.operation = d.operation, !.py_op = 0]
                            ELSE ins,
                            None)]

\* dup = DAGOpNode.from_instruction(n._to_circuit_instruction(deepcopy=d1),
\* deepcopy=d2), with n in slot src and dup put in slot dst.
Duplicate(src, dst, d1, d2) ==
    /\ IsFreeSlot(dst)
    /\ nodes[src].kind = "op"
    /\ LET ci == to_circuit_instruction(objs, nodes[src].instruction, d1)
           r == from_instruction(ci.h, ci.ins, d2)
       IN  /\ ci.ok /\ r.ok
           /\ objs' = r.h
           /\ nodes' = [nodes EXCEPT ![dst] = r.node]
    /\ deepdup' = IF d1 \/ d2 THEN Without(dst) \cup {<<src, dst>>} ELSE Without(dst)
    /\ outcome' = "ok"
    /\ last' = Call("duplicate", src, dst, d1 \/ d2)
    /\ UNCHANGED cache_pygates

----------------------------------------------------------------------------
(* Pickling: __reduce__ and the rebuild from its result.                   *)

\* DAGOpNode::__reduce__: (type, (op, qubits, clbits), index).
DAGOpNode__reduce__(h, n, cache) ==
    LET g == get_operation(h, n.instruction, cache) IN
    [ok |-> g.ok, h |-> g.h, slf |-> [n EXCEPT !.instruction = g.ins],
     kind |-> "op", addr |-> g.addr, obj |-> g.obj,
     qubits |-> n.instruction.qubits, clbits |-> n.instruction.clbits,
     wire |-> "", state |-> n.node]

\* DAGInNode::__reduce__ and DAGOutNode::__reduce__: (type, (wire,), index).
Boundary__reduce__(h, n) ==
    [ok |-> TRUE, h |-> h, slf |-> n, kind |-> n.kind, addr |-> 0, obj |-> FreeCell,
     qubits |-> <<>>, clbits |-> <<>>, wire |-> n.wire, state |-> n.node]

\* What pickle does with the result of __reduce__: the class is called on
\* the arguments, then __setstate__ gets the state.
Rebuild(r, cache) ==
    LET made == CASE r.kind = "op" ->
                       DAGOpNode(NewOpInstruction(r.obj, r.addr, r.qubits, r.clbits, cache), None)
                  [] r.kind = "in" -> DAGInNode(r.wire, None)
                  [] OTHER -> DAGOutNode(r.wire, None)
    IN  [made EXCEPT !.node = r.state]

\* The node in slot src is reduced and the result rebuilt in slot dst.
RoundTrip(src, dst) ==
    /\ IsFreeSlot(dst)
    /\ nodes[src].kind \in {"op", "in", "out"}
    /\ LET r == IF nodes[src].kind = "op"
                THEN DAGOpNode__reduce__(objs, nodes[src], cache_pygates)
                ELSE Boundary__reduce__(objs, nodes[src])
       IN  /\ r.ok
           /\ objs' = r.h
           /\ nodes' = [nodes EXCEPT ![src] = r.slf, ![dst] = Rebuild(r, cache_pygates)]
    /\ deepdup' = Without(dst)
    /\ outcome' = "ok"
    /\ last' = Call("roundtrip", src, dst, FALSE)
    /\ UNCHANGED cache_pygates

----------------------------------------------------------------------------
(* Queries.                                                                *)

\* a == b evaluated for the nodes in slots i and j.
Compare(i, j) ==
    /\ nodes[i].kind # "none" /\ nodes[j].kind # "none"
    /\ last' = Call("eq", i, j, PyEq(objs, nodes, i, j))
    /\ outcome' = "ok"
    /\ UNCHANGED <<nodes, objs, cache_pygates, deepdup>>

\* hash(a) evaluated for the node in slot i.
Hash(i) ==
    /\ nodes[i].kind # "none"
    /\ last' = Call("hash", i, 0, PyHash(nodes[i]))
    /\ outcome' = "ok"
    /\ UNCHANGED <<nodes, objs, cache_pygates, deepdup>>

----------------------------------------------------------------------------
(* The caller's Python objects and the inputs of the calls.                *)

HeapOf(seq) == [a \in Addrs |-> IF a <= Len(seq) THEN seq[a] ELSE FreeCell]

RXGate == PyObj("StandardGate", "rx", <<ParamFloat(F_0p1)>>, NoLabel, "rx")
Barrier == PyObj("StandardInstruction", "barrier", <<>>, NoLabel, "barrier")
UnitaryGate == PyObj("Unitary", "unitary", <<>>, NoLabel, "U0")
Custom(cls) == PyObj(cls, "foo", <<ParamFloat(F_0p1)>>, Label("L"), "")
NotAnOperation == PyObj("NotOp", "", <<>>, NoLabel, "")

Wires == {"q0", "q1"}
QargsSet == {<<>>, <<"q0">>}
CargsSet == {<<>>, <<"c0">>}
RawIndices == -1..MaxIndex
Indices == {None} \cup {Some(k) : k \in 0..MaxIndex}

\* Parameter lists for the comparison of nodes: every list of at most one
\* parameter, and longer lists up to MaxParams.
EqParamVals == {ParamFloat(F_0p1), ParamFloat(F_0p1_12), ParamFloat(NaN),
                ParamExpr("theta"), ParamObj("obj")}
LongParamLists == {<<ParamFloat(F_0p1), ParamFloat(F_0p1)>>,
                   <<ParamFloat(F_0p1), ParamExpr("theta")>>,
                   <<ParamFloat(F_0p1_12), ParamFloat(F_0p1), ParamObj("obj")>>}
EqParamLists == {<<>>} \cup {<<p>> : p \in EqParamVals}
                \cup {l \in LongParamLists : Len(l) <= MaxParams}

----------------------------------------------------------------------------
(* Spec: the calls on nodes, over a small set of caller objects.           *)

\* The operation objects of the caller: one held by value once extracted,
\* one Python-defined of class cls, and an object that is no operation.
CallerObjs(cls) ==
    CASE cls = "Gate" -> <<RXGate, Custom(cls), NotAnOperation>>
      [] cls = "Instruction" -> <<Barrier, Custom(cls), NotAnOperation>>
      [] OTHER -> <<UnitaryGate, Custom(cls), NotAnOperation>>

Targets == {<<(<<>>), (<<>>)>>, <<(<<"q0">>), (<<"c0">>)>>}
NewParamLists == {<<ParamFloat(F_0p5)>>, <<ParamFloat(NaN)>>}
NewNames == {"bar"}
NewLabels == {NoLabel, Label("M")}

\* One more call, while the run may go on.
Counted(A) == calls < MaxCalls /\ calls' = calls + 1 /\ A

Init ==
    /\ nodes = [i \in Slots |-> EmptySlot]
    /\ \E cls \in PyKinds : objs = HeapOf(CallerObjs(cls))
    /\ cache_pygates \in BOOLEAN
    /\ outcome = "ok"
    /\ last = NoCall
    /\ deepdup = {}
    /\ calls = 0

Next ==
    \/ \E i \in Slots, nid \in -2..MaxIndex : Counted(DAGNode_py_new(i, nid))
    \/ \E i \in Slots, nid \in -2..MaxIndex : Counted(set_py_node_id(i, nid))
    \/ \E i \in Slots, index \in Indices : Counted(setstate(i, index))
    \/ \E i \in Slots : Counted(DAGInNode_py_new(i, "q0"))
    \/ \E i \in Slots : Counted(DAGOutNode_py_new(i, "q0"))
    \/ \E i \in Slots, k \in 0..MaxIndex : Counted(DAGInNode_new(i, k, "q0"))
    \/ \E i \in Slots, k \in 0..MaxIndex : Counted(DAGOutNode_new(i, k, "q0"))
    \/ \E i \in Slots, o \in Addrs, t \in Targets : Counted(DAGOpNode_py_new(i, o, t[1], t[2]))
    \/ \E i \in Slots, o \in Addrs : Counted(set_op(i, o))
    \/ \E i \in Slots, qargs \in QargsSet : Counted(set_qargs(i, qargs))
    \/ \E i \in Slots, cargs \in CargsSet : Counted(set_cargs(i, cargs))
    \/ \E i \in Slots, val \in NewParamLists : Counted(set_params(i, val))
    \/ \E i \in Slots, val \in NewLabels : Counted(set_label(i, val))
    \/ \E i \in Slots, name \in NewNames : Counted(set_name(i, name))
    \/ \E i \in Slots, name \in NewNames : Counted(op_setattr_name(i, name))
    \/ \E i \in Slots : Counted(get_op(i))
    \/ \E src \in Slots, dst \in Slots, d1 \in BOOLEAN, d2 \in BOOLEAN :
           Counted(Duplicate(src, dst, d1, d2))
    \/ \E src \in Slots, dst \in Slots : Counted(RoundTrip(src, dst))

Spec == Init /\ [][Next]_vars

----------------------------------------------------------------------------
(* SpecEq: two nodes, each in any state that a constructor followed by the *)
(* setters of the index, the parameters and the targets leaves it in, are  *)
(* compared and hashed.                                                    *)

EqHeap == HeapOf(<<RXGate, Custom("Gate"), Custom("Gate")>>)

FloatSet == {F_0, F_1em16, F_3em16, F_0p1, F_0p1_12, F_0p1_11b, F_0p1_11, F_0p1_11x, F_0p1_8,
             F_0p1001, F_m0p1, F_0p5, F_0p5_13, NaN, Inf}

\* DAGOpNode(op, qargs, cargs), then the index and the parameters are set.
BuiltOpNode(o, q, c, index, val) ==
    [DAGOpNode(NewOpInstruction(EqHeap[o], o, q, c, FALSE), index)
        EXCEPT !.instruction.params = val]

EqNodes ==
    {BuiltOpNode(o, q, c, index, val) :
        o \in 1..3, q \in QargsSet, c \in CargsSet, index \in Indices, val \in EqParamLists}
    \cup {BuiltOpNode(1, <<>>, <<>>, None, <<ParamFloat(f)>>) : f \in FloatSet}
    \cup {DAGInNode(w, index) : w \in Wires, index \in Indices}
    \cup {DAGOutNode(w, index) : w \in Wires, index \in Indices}
    \cup {DAGNode(index) : index \in Indices}

InitEq ==
    /\ nodes \in [Slots -> EqNodes]
    /\ objs = EqHeap
    /\ cache_pygates = FALSE
    /\ outcome = "ok"
    /\ last = NoCall
    /\ deepdup = {}
    /\ calls = 0

NextEq ==
    \/ \E i \in Slots, j \in Slots : Compare(i, j) /\ UNCHANGED calls
    \/ \E i \in Slots : Hash(i) /\ UNCHANGED calls

SpecEq == InitEq /\ [][NextEq]_vars

----------------------------------------------------------------------------
(* Claims on equality (checked under SpecEq).                              *)

\* The last call was a == b, with a in slot last.i and b in slot last.j.
Compared == last.op = "eq"
CmpA == nodes[last.i]
CmpB == nodes[last.j]

\* C3, as stated: an input-boundary node and an output-boundary node with
\* the same index and the same wire compare equal, in both directions.
C3_CrossTagEqual ==
    (/\ Compared
     /\ {CmpA.kind, CmpB.kind} = {"in", "out"}
     /\ CmpA.node = CmpB.node
     /\ CmpA.wire = CmpB.wire)
    => last.res = TRUE

\* C3, amended: a boundary node equals another node exactly when that node
\* is a boundary node of the same class with the same index and the same
\* wire; an input-boundary node and an output-boundary node are never
\* equal, whichever is on the left.
C3_BoundaryEqSameClass ==
    (Compared /\ CmpA.kind \in {"in", "out"})
    => (last.res <=> (/\ CmpB.kind = CmpA.kind
                       /\ CmpA.node = CmpB.node
                       /\ CmpA.wire = CmpB.wire))

\* An input node was compared with an output node of the same index and
\* wire, and the result was False.
C3_Witness ==
    /\ Compared
    /\ CmpA.kind = "in" /\ CmpB.kind = "out"
    /\ CmpA.node = CmpB.node /\ CmpA.node.some
    /\ CmpA.wire = CmpB.wire
    /\ last.res = FALSE

\* C5: a == b on an operation node a is True only if b is an operation node
\* with exactly the same index (a detached node never equals an attached
\* one), an operation equal under the descriptors' own equality, and equal
\* qubit and clbit tuples; against a node that is no operation node the
\* comparison returns False and raises nothing.
C5_OpEqNecessary ==
    (Compared /\ CmpA.kind = "op")
    => /\ outcome = "ok"
       /\ CmpB.kind # "op" => last.res = FALSE
       /\ last.res = TRUE =>
            /\ CmpB.kind = "op"
            /\ CmpA.node = CmpB.node
            /\ py_eq(objs, CmpA.instruction.operation, CmpB.instruction.operation)
            /\ CmpA.instruction.qubits = CmpB.instruction.qubits
            /\ CmpA.instruction.clbits = CmpB.instruction.clbits

\* Two operation nodes held in different slots, attached to the same index,
\* with a non-empty clbit tuple, compared equal.
C5_Witness ==
    /\ Compared /\ last.i # last.j
    /\ CmpA.kind = "op" /\ CmpB.kind = "op"
    /\ CmpA.node.some
    /\ CmpA.instruction.clbits # <<>>
    /\ CmpA.instruction.operation.ref # CmpB.instruction.operation.ref
    /\ last.res = TRUE

\* The case of C6: two operation nodes with the same standard gate, index
\* and targets, each with one plain-float parameter.
C6_Case ==
    /\ Compared
    /\ CmpA.kind = "op" /\ CmpB.kind = "op"
    /\ IsStandardGate(CmpA.instruction.operation)
    /\ CmpA.instruction.operation = CmpB.instruction.operation
    /\ CmpA.node = CmpB.node
    /\ CmpA.instruction.qubits = CmpB.instruction.qubits
    /\ CmpA.instruction.clbits = CmpB.instruction.clbits
    /\ Len(CmpA.instruction.params) = 1 /\ Len(CmpB.instruction.params) = 1
    /\ CmpA.instruction.params[1].k = "Float" /\ CmpB.instruction.params[1].k = "Float"
C6_a == CmpA.instruction.params[1].f
C6_b == CmpB.instruction.params[1].f

\* |a - b| <= max(|a|, |b|) * 1e-10 for finite a and b, in f64 arithmetic.
RelDiffWithin(a, b) ==
    /\ a.cls = "fin" /\ b.cls = "fin"
    /\ F64Leq(AbsDiff(a, b), TimesMaxRelative(Largest(a, b)))

\* |a - b| <= f64::EPSILON for finite a and b, in f64 arithmetic.
AbsDiffWithinEpsilon(a, b) ==
    /\ a.cls = "fin" /\ b.cls = "fin"
    /\ F64Leq(AbsDiff(a, b), Epsilon)

\* C6, as stated: the two nodes are equal iff the relative difference of
\* the two floats is within 1e-10 (floats that are equal differ by nothing).
C6_RelativeOnly ==
    C6_Case => (last.res <=> (F64Eq(C6_a, C6_b) \/ RelDiffWithin(C6_a, C6_b)))

\* C6, amended: the two nodes are equal iff the two floats are equal, or
\* both are finite and either their absolute difference is at most
\* f64::EPSILON or it is at most max(|a|, |b|) * 1e-10, the difference and
\* the product being computed in f64.  So 0.1 and 0.1 + 1e-12 are equal,
\* 0.1 and 0.1 + 1e-8 are not, 0.1 and 0.1001 are not; at the edge, 0.1
\* and 0.10000000000999999 are equal, 0.1 and 0.10000000001 are not.
C6_RelativeOrEpsilon ==
    C6_Case =>
       /\ last.res <=> (\/ F64Eq(C6_a, C6_b)
                        \/ AbsDiffWithinEpsilon(C6_a, C6_b)
                        \/ RelDiffWithin(C6_a, C6_b))
       /\ ({C6_a, C6_b} \in {{F_0p1, F_0p1_12}, {F_0p1, F_0p1_11b}}) => last.res = TRUE
       /\ (F_0p1 \in {C6_a, C6_b} /\ {C6_a, C6_b} \cap {F_0p1_11, F_0p1_11x, F_0p1_8, F_0p1001} # {})
             => last.res = FALSE

\* 0.0 and 1e-16 were compared as parameters and found equal: their
\* relative difference is 1, their absolute difference below EPSILON.
C6_Witness ==
    /\ C6_Case
    /\ C6_a = F_0 /\ C6_b = F_1em16
    /\ last.res = TRUE

\* C8, as stated: a == a for every node a, and (a == b) = (b == a) for
\* every two nodes of any kinds.
C8_ReflexiveSymmetric ==
    Compared =>
       /\ last.i = last.j => last.res = TRUE
       /\ last.res = PyEq(objs, nodes, last.j, last.i)

\* C11, as stated: two operation nodes with a standard gate are equal only
\* if their parameter lists have the same length and every pair of
\* corresponding parameters is of the same kind and equal under the rule of
\* that kind; a node whose list was replaced by a shorter or a longer one
\* is never equal to a node that keeps the original list.
C11_PairwiseTotal ==
    (/\ Compared
     /\ CmpA.kind = "op" /\ CmpB.kind = "op"
     /\ IsStandardGate(CmpA.instruction.operation)
     /\ last.res = TRUE)
    => /\ Len(CmpA.instruction.params) = Len(CmpB.instruction.params)
       /\ \A k \in 1..Len(CmpA.instruction.params) :
              /\ CmpA.instruction.params[k].k = CmpB.instruction.params[k].k
              /\ ParamPairEq(CmpA.instruction.params[k], CmpB.instruction.params[k])

----------------------------------------------------------------------------
(* Claims on the calls (checked under Spec).                               *)

\* C1, as stated: the node rebuilt from the result of __reduce__ has the
\* index of the node that was reduced and compares equal to it, for each
\* of the three node classes and whatever was done to the node before.
C1_RoundTripEqual ==
    last.op = "roundtrip" =>
       /\ nodes[last.j].kind = nodes[last.i].kind
       /\ nodes[last.j].node = nodes[last.i].node
       /\ PyEq(objs, nodes, last.j, last.i)
       /\ PyEq(objs, nodes, last.i, last.j)

\* C2, as stated: two operation nodes that are equal have the same hash.
C2_EqualNodesHashEqual ==
    \A i \in Slots, j \in Slots :
        (/\ nodes[i].kind = "op" /\ nodes[j].kind = "op"
         /\ DAGOpNode__eq__(objs, nodes[i], nodes[j]))
        => DAGOpNode__hash__(nodes[i]) = DAGOpNode__hash__(nodes[j])

\* C4, as stated: the constructor DAGNode(nid) and the _node_id setter
\* accept -1 and every non-negative index, and reject any other negative
\* index with a ValueError, the node being left as it was.
C4_IndexValidated ==
    last.op \in {"DAGNode", "set_node_id"} =>
        IF last.j >= -1 THEN outcome = "ok" ELSE outcome = "ValueError"

\* What a caller can see of the operation of the node n: the descriptor,
\* the Python object it refers to, and the cached Python object.
OperationView(h, n) ==
    [operation |-> n.instruction.operation,
     obj |-> IF n.instruction.operation.kind \in PyKinds
             THEN h[n.instruction.operation.ref] ELSE FreeCell,
     cached |-> IF n.instruction.py_op # 0 THEN h[n.instruction.py_op] ELSE FreeCell]

DescriptorCalls == {"set_op", "set_name", "op_setattr_name", "get_op"}

\* C7: once dup was made from n with a deep copy requested (in
\* _to_circuit_instruction or in from_instruction), a call that changes the
\* operation of dup (set_op, set_name, or setting the name on the object
\* that dup.op returns) leaves the operation of n as it was, and the other
\* way round.  A pair is followed until set_op gives one of the two nodes
\* another operation object.
C7_DeepDupIndependent ==
    [][\A p \in deepdup :
          /\ (last'.op \in DescriptorCalls /\ last'.i = p[2])
                => OperationView(objs', nodes'[p[1]]) = OperationView(objs, nodes[p[1]])
          /\ (last'.op \in DescriptorCalls /\ last'.i = p[1])
                => OperationView(objs', nodes'[p[2]]) = OperationView(objs, nodes[p[2]])
      ]_vars

\* The name was set on a deep duplicate of a node that holds a Python
\* operation object, and the two objects now have different names.
C7_Witness ==
    \E p \in deepdup :
        /\ last.op \in {"set_name", "op_setattr_name"} /\ last.i = p[2]
        /\ nodes[p[1]].instruction.operation.kind \in PyKinds
        /\ nodes[p[2]].instruction.operation.kind \in PyKinds
        /\ objs[nodes[p[1]].instruction.operation.ref].name
             # objs[nodes[p[2]].instruction.operation.ref].name

Constructors == {"DAGOpNode", "DAGInNode", "DAGOutNode", "duplicate"}
NewSlot(c) == IF c.op = "duplicate" THEN c.j ELSE c.i

\* C9, as stated (the part on the index): once a node is attached, setting
\* the index neither detaches it nor moves it to another index.
C9_AttachedOnce ==
    [][(last'.op = "set_node_id" /\ nodes[last'.i].node.some)
          => nodes'[last'.i].node = nodes[last'.i].node]_vars

\* C9, amended: every constructor open to callers (DAGOpNode, DAGInNode,
\* DAGOutNode, from_instruction) makes a detached node; the index setter
\* then stores whatever valid index it is given, on a detached and on an
\* attached node alike: -1 detaches the node, a non-negative value attaches
\* it to that index, also when it was attached to another one before.
C9_SetterUnconditional ==
    [][/\ (last'.op \in Constructors /\ outcome' = "ok")
            => nodes'[NewSlot(last')].node = None
       /\ (last'.op = "set_node_id" /\ outcome' = "ok")
            => nodes'[last'.i].node = IF last'.j = -1 THEN None ELSE Some(last'.j)
      ]_vars

\* An attached node was given another index, or was detached again.
C9_Witness ==
    /\ last.op = "set_node_id" /\ outcome = "ok"
    /\ last.res.some
    /\ nodes[last.i].node # last.res

\* C10: a successful set_op replaces the operation, the parameters and the
\* label of the node by those derived from the new object, and leaves the
\* index and both target tuples as they were; a set_op that fails the
\* extraction returns an error and leaves the whole node as it was.
C10_SetOpFrame ==
    [][last'.op = "set_op" =>
          LET i == last'.i
              new == Extract(objs, last'.j)
          IN  IF new.ok
              THEN /\ outcome' = "ok"
                   /\ nodes'[i].instruction.operation = new.operation
                   /\ nodes'[i].instruction.params = new.params
                   /\ nodes'[i].instruction.label = new.label
                   /\ nodes'[i].node = nodes[i].node
                   /\ nodes'[i].instruction.qubits = nodes[i].instruction.qubits
                   /\ nodes'[i].instruction.clbits = nodes[i].instruction.clbits
              ELSE /\ outcome' # "ok"
                   /\ nodes'[i] = nodes[i]
      ]_vars

\* set_op succeeded on an attached node with targets, and the parameters
\* and the label the node had before are both gone.
C10_Witness ==
    /\ last.op = "set_op" /\ outcome = "ok"
    /\ nodes[last.i].node.some
    /\ nodes[last.i].instruction.qubits # <<>>
    /\ nodes[last.i].instruction.clbits # <<>>
    /\ last.res.instruction.params # nodes[last.i].instruction.params
    /\ last.res.instruction.label # nodes[last.i].instruction.label

====
